---- MODULE Spec2Model ----
(***************************************************************************)
(* Model of the P2 stats generator (src/index.ts): three paginated Jira    *)
(* searches, the normalisation of every raw ticket, the join of stories    *)
(* and clarification requests onto their epics, the flattening into rows   *)
(* and the CSV write.                                                      *)
(*                                                                         *)
(* Conventions.  A JavaScript value that may be undefined/null is a set:   *)
(* {} is undefined, {v} is the value v.  Strings the program only compares *)
(* for equality are TLA+ strings; strings it takes apart (startsWith,      *)
(* substring) are tuples of characters.  Issue keys have the tracker's     *)
(* PROJECT-N form and an epic-link field, when present, holds such a key.  *)
(***************************************************************************)
EXTENDS Integers, Sequences, FiniteSets, TLC

VARIABLES
    pc,           \* position of main(): "fetch", "await", "map", "epics",
                  \* "stories", "scrs", "flatten", "write", "writing", "done";
                  \* when an error was raised, the position that raised it
    fetch,        \* which getTickets call is running: 1 scrs, 2 stories, 3 epics
    startAt,      \* loop variable i of readAllJiraTickets
    tickets,      \* the array `tickets` of readAllJiraTickets
    inflight,     \* number of HTTP requests sent and not yet answered
    requests,     \* log of the requests issued, <<fetch, startAt>>
    pages,        \* the pages received by the latest readAllJiraTickets call
    results,      \* per fetch, what getTickets returned ({} until it returns)
    order,        \* own keys of `consolidated`, in insertion order
    consolidated, \* the mapping epic key -> Epic
    idx,          \* position of the running for-of loop
    flattened,    \* the array `flattened` ({} until computed)
    written,      \* records handed to writer.writeRecords ({} until called)
    error,        \* the uncaught error that ended main: "none", "http",
                  \* "TypeError", "io"
    postRejected, \* whether a client.post promise has rejected
    raw,          \* normalisation study: the raw ticket under study
    norm,         \* normalisation study: outcome of the map callback
    generic       \* normalisation study: outcome of toGenericIssue

pipeVars == <<pc, fetch, startAt, tickets, inflight, requests, pages, results,
              order, consolidated, idx, flattened, written, error,
              postRejected>>
normVars == <<raw, norm, generic>>
vars == <<pc, fetch, startAt, tickets, inflight, requests, pages, results,
          order, consolidated, idx, flattened, written, error,
          postRejected, raw, norm, generic>>

(***************************************************************************)
(* Bounds of the model.                                                    *)
(***************************************************************************)
MaxRecords == 4     \* records the tracker holds over the three searches
MaxPageLen == 2     \* records the tracker puts in one page
MaxLinks == 2       \* issue links of the ticket under study

(***************************************************************************)
(* Values.                                                                 *)
(***************************************************************************)
Undef == {}
Some(v) == {v}
the(o) == CHOOSE x \in o : TRUE

Min(a, b) == IF a <= b THEN a ELSE b

\* String.prototype.startsWith
startsWith(s, p) == Len(s) >= Len(p) /\ SubSeq(s, 1, Len(p)) = p

\* String.prototype.substring(a, b) for 0 <= a <= b
substring(s, a, b) == SubSeq(s, a + 1, Min(b, Len(s)))

\* Array.prototype.includes
includes(arr, x) == \E i \in 1..Len(arr) : arr[i] = x

CENPRO == <<"C", "E", "N", "P", "R", "O">>
OTHERPRJ == <<"O", "T", "H", "E", "R">>
IssueKey(project, n) == project \o <<"-">> \o n

Date1 == <<"2", "0", "2", "3", "-", "0", "5", "-", "0", "1">>
Date2 == <<"2", "0", "2", "3", "-", "0", "6", "-", "3", "0">>
Clock == <<"T", "1", "0", ":", "0", "0", ":", "0", "0", ".", "0", "0", "0", "Z">>
Stamp1 == Date1 \o Clock
Stamp2 == Date2 \o Clock

PAGE_SIZE == 250

(***************************************************************************)
(* RawTicket: the record the search endpoint returns for one issue.        *)
(***************************************************************************)
RawTicket(key, lbl, smry, crtd, epicLink, rsvd, owner, rptr, stat, rsln, lnks) ==
    [key |-> key,
     fields |-> [labels |-> lbl,
                 summary |-> smry,
                 created |-> crtd,
                 customfield_10002 |-> epicLink,
                 resolutiondate |-> rsvd,
                 customfield_28100 |-> owner,
                 reporter |-> rptr,
                 status |-> stat,
                 resolution |-> rsln,
                 issuelinks |-> lnks]]

Named(n) == Some([name |-> n])
Person(n) == Some([displayName |-> n])
Link(typeName, outward) == [type |-> [name |-> typeName], outwardIssue |-> outward]
Outward(key) == Some([key |-> key])

\* the callback of find on line 101
RelatesToProject(link) ==
    /\ link.type.name = "Relates"
    /\ link.outwardIssue # Undef
    /\ the(link.outwardIssue).key # Undef
    /\ startsWith(the(the(link.outwardIssue).key), CENPRO)

\* Array.prototype.find with the callback of line 101, from position i on:
\* the index of the first link satisfying it, 0 if none
RECURSIVE findFrom(_, _)
findFrom(arr, i) ==
    IF i > Len(arr) THEN 0
    ELSE IF RelatesToProject(arr[i]) THEN i
    ELSE findFrom(arr, i + 1)

\* links?.find(...)?.outwardIssue.key
LinkedEpic(issuelinks) ==
    IF issuelinks = Undef THEN Undef
    ELSE LET i == findFrom(the(issuelinks), 1)
         IN  IF i = 0 THEN Undef ELSE the(the(issuelinks)[i].outwardIssue).key

\* a || b on optional strings: a when it is a non-empty string, else b
OrElse(a, b) == IF a # Undef /\ the(a) # <<>> THEN a ELSE b

\* variant of EpicOf: a qualifying issue link is preferred to the epic-link field
EpicOf_linkFirst(t) ==
    OrElse(LinkedEpic(t.fields.issuelinks), t.fields.customfield_10002)

\* line 101
EpicOf(t) == OrElse(t.fields.customfield_10002, LinkedEpic(t.fields.issuelinks))

\* variant of StatusOf: "Rejected" needs the label and the resolution together
StatusOf_both(t) ==
    LET name == the(t.fields.status).name
        rejected == /\ (t.fields.labels # Undef
                        /\ includes(the(t.fields.labels), "ExecReject"))
                    /\ (IF t.fields.resolution = Undef THEN TRUE
                        ELSE the(t.fields.resolution).name # "Done")
    IN  IF name = "Done"
        THEN (IF rejected THEN "Rejected" ELSE "Done")
        ELSE name

\* line 103, for a ticket that has a status
StatusOf(t) ==
    LET name == the(t.fields.status).name
        rejected == \/ (t.fields.labels # Undef
                        /\ includes(the(t.fields.labels), "ExecReject"))
                    \/ (IF t.fields.resolution = Undef THEN TRUE
                        ELSE the(t.fields.resolution).name # "Done")
    IN  IF name = "Done"
        THEN (IF rejected THEN "Rejected" ELSE "Done")
        ELSE name

\* x?.displayName
DisplayName(p) == IF p = Undef THEN Undef ELSE Some(the(p).displayName)

\* the map callback raises a TypeError when it reads .name of an absent status
mapThrows(t) == t.fields.status = Undef

\* lines 100-109: the map callback of getTickets
toTicket(t) ==
    [epic |-> EpicOf(t),
     key |-> t.key,
     status |-> StatusOf(t),
     summary |-> t.fields.summary,
     svp |-> DisplayName(t.fields.customfield_28100),
     created |-> t.fields.created,
     resolved |-> t.fields.resolutiondate,
     reporter |-> DisplayName(t.fields.reporter)]

\* Array.prototype.map over the fetched tickets; {} when a callback throws
mapTickets(raws) ==
    IF \E i \in 1..Len(raws) : mapThrows(raws[i]) THEN Undef
    ELSE Some([i \in 1..Len(raws) |-> toTicket(raws[i])])

\* variant of genericThrows: resolved is read without safe navigation
genericThrows_resolved(ticket) == ticket.created = Undef \/ ticket.resolved = Undef

\* toGenericIssue raises a TypeError when it reads .substring of an absent created
genericThrows(ticket) == ticket.created = Undef

\* lines 132-140
toGenericIssue(ticket) ==
    [key |-> ticket.key,
     created |-> substring(the(ticket.created), 0, 10),
     status |-> ticket.status,
     title |-> ticket.summary,
     resolved |-> IF ticket.resolved = Undef THEN Undef
                  ELSE Some(substring(the(ticket.resolved), 0, 10))]

(***************************************************************************)
(* Normalisation study: one raw ticket drawn from RawStudy is run through  *)
(* the map callback of getTickets and then through toGenericIssue.         *)
(***************************************************************************)
Pending == [state |-> "pending", value |-> Undef]
Thrown == [state |-> "TypeError", value |-> Undef]
Returned(v) == [state |-> "ok", value |-> Some(v)]

StudyLinks ==
    {Link("Relates", Undef),
     Link("Relates", Outward(Some(IssueKey(CENPRO, <<"4", "2">>)))),
     Link("Relates", Outward(Some(IssueKey(CENPRO, <<"7">>)))),
     Link("Relates", Outward(Some(IssueKey(OTHERPRJ, <<"1">>)))),
     Link("Relates", Outward(Undef)),
     Link("Blocks", Outward(Some(IssueKey(CENPRO, <<"4", "2">>))))}

SeqsUpTo(S, n) == UNION {[1..k -> S] : k \in 0..n}

RawStudy ==
    {RawTicket(IssueKey(CENPRO, <<"5">>), labels, "summary", created, epicLink,
               resolutiondate, owner, reporter, status, resolution, issuelinks) :
        labels \in {Undef, Some(<<"Rebuild">>), Some(<<"ExecReject">>),
                    Some(<<"Rebuild", "ExecReject">>)},
        created \in {Undef, Some(Stamp1)},
        epicLink \in {Undef, Some(IssueKey(CENPRO, <<"1">>))},
        resolutiondate \in {Undef, Some(Stamp2)},
        owner \in {Undef, Person("Olga")},
        reporter \in {Undef, Person("Rami")},
        status \in {Undef, Named("Done"), Named("In Progress")},
        resolution \in {Undef, Named("Done"), Named("Won't Do")},
        issuelinks \in {Undef} \cup {Some(l) : l \in SeqsUpTo(StudyLinks, MaxLinks)}}

\* the map callback applied to the ticket under study
Normalize ==
    /\ norm = Pending
    /\ LET r == mapTickets(<<raw>>)
       IN  norm' = IF r = Undef THEN Thrown ELSE Returned(the(r)[1])
    /\ UNCHANGED <<raw, generic>>
    /\ UNCHANGED pipeVars

\* toGenericIssue applied to the normalised ticket
Project ==
    /\ norm.state = "ok"
    /\ generic = Pending
    /\ generic' = IF genericThrows(the(norm.value)) THEN Thrown
                  ELSE Returned(toGenericIssue(the(norm.value)))
    /\ UNCHANGED <<raw, norm>>
    /\ UNCHANGED pipeVars

PipeInit ==
    /\ pc = "fetch"
    /\ fetch = 1
    /\ startAt = 0
    /\ tickets = <<>>
    /\ inflight = 0
    /\ requests = <<>>
    /\ pages = <<>>
    /\ results = [k \in 1..3 |-> Undef]
    /\ order = <<>>
    /\ consolidated = <<>>
    /\ idx = 1
    /\ flattened = Undef
    /\ written = Undef
    /\ error = "none"
    /\ postRejected = FALSE

InitNorm ==
    /\ PipeInit
    /\ raw \in RawStudy
    /\ norm = Pending
    /\ generic = Pending

NextNorm == Normalize \/ Project

SpecNorm == InitNorm /\ [][NextNorm]_vars

(***************************************************************************)
(* The tracker's content for the three searches of main (lines 147-165).   *)
(***************************************************************************)
Issue(n, summary, epicLink, issuelinks, created, reporter, status) ==
    RawTicket(IssueKey(CENPRO, n), Undef, summary, created, epicLink, Undef,
              Undef, reporter, status, Undef, issuelinks)

EpicIssue(n, summary, owner, resolutiondate, status) ==
    RawTicket(IssueKey(CENPRO, n), Some(<<"Rebuild">>), summary, Some(Stamp1),
              Undef, resolutiondate, owner, Person("Rami"), status,
              Named("Done"), Undef)

Epic1 == IssueKey(CENPRO, <<"1">>)
Epic2 == IssueKey(CENPRO, <<"2">>)
Epic9 == IssueKey(CENPRO, <<"9">>)

ScrPool ==
    {Issue(<<"2", "1">>, "scr one", Some(Epic2), Undef, Some(Stamp1),
           Person("Rami"), Named("Open")),
     Issue(<<"2", "2">>, "scr two", Some(Epic2), Undef, Some(Stamp2),
           Person("Olga"), Named("Done")),
     Issue(<<"2", "3">>, "scr three", Undef,
           Some(<<Link("Relates", Outward(Some(IssueKey(OTHERPRJ, <<"1">>))))>>),
           Some(Stamp2), Undef, Named("Open"))}

StoryPool ==
    {Issue(<<"1", "1">>, "story one", Some(Epic1), Undef, Some(Stamp1),
           Person("Rami"), Named("Done")),
     Issue(<<"1", "2">>, "story two", Undef,
           Some(<<Link("Relates", Outward(Some(Epic1)))>>), Some(Stamp2),
           Person("Rami"), Named("Done")),
     Issue(<<"1", "3">>, "story three", Some(Epic9), Undef, Undef,
           Person("Rami"), Named("Done")),
     Issue(<<"1", "4">>, "story four", Some(Epic1), Undef, Undef,
           Person("Rami"), Named("Done"))}

EpicPool ==
    {EpicIssue(<<"1">>, "epic one", Person("Olga"), Some(Stamp2), Named("Done")),
     EpicIssue(<<"2">>, "epic two", Undef, Undef, Named("Done")),
     EpicIssue(<<"3">>, "epic three", Person("Olga"), Undef, Undef)}

Pool(k) == CASE k = 1 -> ScrPool [] k = 2 -> StoryPool [] k = 3 -> EpicPool

RECURSIVE Returned_records(_)
Returned_records(k) ==
    IF k = 0 THEN 0 ELSE Len(the(results[k])) + Returned_records(k - 1)

\* records the tracker has delivered so far: those of the searches that have
\* returned and those of the running one
Delivered == Returned_records(fetch - 1) + Len(tickets)

\* the values response.data.issues can take for a request of search k:
\* absent, an empty array, or up to MaxPageLen records of the search
Answers(k) ==
    {Undef, Some(<<>>)}
    \cup {Some(p) : p \in {q \in SeqsUpTo(Pool(k), MaxPageLen) :
                             Len(q) > 0 /\ Delivered + Len(q) <= MaxRecords}}

(***************************************************************************)
(* getTickets (lines 60-110).                                              *)
(***************************************************************************)
\* variant of readJiraPage: the caller does not wait for the response
readJiraPage_noAwait ==
    /\ error = "none"
    /\ pc = "fetch"
    /\ Len(requests) < 2
    /\ requests' = Append(requests, <<fetch, startAt>>)
    /\ inflight' = inflight + 1
    /\ pages' = IF startAt = 0 THEN <<>> ELSE pages
    /\ UNCHANGED <<pc, fetch, startAt, tickets, results, order,
                   consolidated, idx, flattened, written, error>>
    /\ UNCHANGED <<postRejected, raw, norm, generic>>

\* lines 64-84 up to the await of line 89: client.post('/search', ...)
readJiraPage ==
    /\ error = "none"
    /\ pc = "fetch"
    /\ requests' = Append(requests, <<fetch, startAt>>)
    /\ inflight' = inflight + 1
    /\ pc' = "await"
    /\ pages' = IF startAt = 0 THEN <<>> ELSE pages
    /\ UNCHANGED <<fetch, startAt, tickets, results, order,
                   consolidated, idx, flattened, written, error>>
    /\ UNCHANGED <<postRejected, raw, norm, generic>>

\* variant of HasIssues: a page shorter than the most the tracker sends ends the loop
HasIssues_full(issues) == issues # Undef /\ Len(the(issues)) >= MaxPageLen

\* line 90: issues?.length
HasIssues(issues) == issues # Undef /\ Len(the(issues)) > 0

\* variant of NextStart: the offset advances by the number of records received
NextStart_received(i, issues) == i + Len(the(issues))

\* line 88: i += PAGE_SIZE
NextStart(i, issues) == i + PAGE_SIZE

\* lines 93-109 and the return into main: break, map, and either the next
\* getTickets call or the start of the epic loop
Break ==
    LET r == mapTickets(tickets)
    IN  IF r = Undef
        THEN /\ error' = "TypeError"
             /\ pc' = "map"
             /\ UNCHANGED <<fetch, startAt, tickets, results, idx>>
        ELSE /\ results' = [results EXCEPT ![fetch] = r]
             /\ IF fetch < 3
                THEN /\ fetch' = fetch + 1
                     /\ startAt' = 0
                     /\ tickets' = <<>>
                     /\ pc' = "fetch"
                     /\ UNCHANGED idx
                ELSE /\ pc' = "epics"
                     /\ idx' = 1
                     /\ UNCHANGED <<fetch, startAt, tickets>>
             /\ UNCHANGED error

\* lines 89-95: the response arrives and the loop body runs
Respond ==
    /\ error = "none"
    /\ pc = "await"
    /\ inflight > 0
    /\ \E issues \in Answers(fetch) :
          /\ inflight' = inflight - 1
          /\ pages' = Append(pages, issues)
          /\ IF HasIssues(issues)
             THEN /\ tickets' = tickets \o the(issues)
                  /\ startAt' = NextStart(startAt, issues)
                  /\ pc' = "fetch"
                  /\ UNCHANGED <<fetch, results, idx, error>>
             ELSE Break
    /\ UNCHANGED <<requests, order, consolidated, flattened, written>>
    /\ UNCHANGED <<postRejected, raw, norm, generic>>

\* variant of RequestFails: the error is caught and treated as the last page
RequestFails_caught ==
    /\ error = "none"
    /\ pc = "await"
    /\ inflight > 0
    /\ inflight' = inflight - 1
    /\ LET r == mapTickets(tickets)
       IN  /\ r # Undef
           /\ results' = [results EXCEPT ![fetch] = r]
           /\ IF fetch < 3
              THEN /\ fetch' = fetch + 1
                   /\ startAt' = 0
                   /\ tickets' = <<>>
                   /\ pc' = "fetch"
                   /\ UNCHANGED idx
              ELSE /\ pc' = "epics"
                   /\ idx' = 1
                   /\ UNCHANGED <<fetch, startAt, tickets>>
    /\ UNCHANGED <<requests, pages, order, consolidated, flattened, written, error>>
    /\ postRejected' = TRUE
    /\ UNCHANGED normVars

\* line 65: client.post rejects (transport, authentication, non-2xx status);
\* nothing catches the rejection, so main's promise rejects at this await
RequestFails ==
    /\ error = "none"
    /\ pc = "await"
    /\ inflight > 0
    /\ inflight' = inflight - 1
    /\ error' = "http"
    /\ UNCHANGED <<pc, fetch, startAt, tickets, requests, pages, results, order,
                   consolidated, idx, flattened, written>>
    /\ postRejected' = TRUE
    /\ UNCHANGED normVars

(***************************************************************************)
(* main (lines 143-214): the join, the flattening and the write.           *)
(***************************************************************************)
scrs == the(results[1])
stories == the(results[2])
epics == the(results[3])

\* lines 169-174: the Epic record made for an epic ticket
NewEpic(epic) ==
    [key |-> toGenericIssue(epic).key,
     created |-> toGenericIssue(epic).created,
     status |-> toGenericIssue(epic).status,
     title |-> toGenericIssue(epic).title,
     resolved |-> toGenericIssue(epic).resolved,
     svp |-> epic.svp,
     stories |-> <<>>,
     scrs |-> <<>>]

\* consolidated[key] = value
Put(cons, key, value) ==
    [k \in DOMAIN cons \cup {key} |-> IF k = key THEN value ELSE cons[k]]

\* lines 168-175: one iteration of the epic loop
InsertEpic ==
    /\ error = "none"
    /\ pc = "epics"
    /\ idx <= Len(epics)
    /\ LET epic == epics[idx]
       IN  IF genericThrows(epic)
           THEN /\ error' = "TypeError"
                /\ UNCHANGED <<consolidated, order, idx>>
           ELSE /\ consolidated' = Put(consolidated, epic.key, NewEpic(epic))
                /\ order' = IF epic.key \in DOMAIN consolidated THEN order
                            ELSE Append(order, epic.key)
                /\ idx' = idx + 1
                /\ UNCHANGED error
    /\ UNCHANGED <<pc, fetch, startAt, tickets, inflight, requests, pages,
                   results, flattened, written>>
    /\ UNCHANGED <<postRejected, raw, norm, generic>>

\* lines 178 and 186: consolidated[ticket.epic] is an Epic
Matched(cons, ticket) == ticket.epic # Undef /\ the(ticket.epic) \in DOMAIN cons

\* variant of pushStory: a story whose key is already listed is skipped
pushStory_unique(cons, story) ==
    IF \E i \in 1..Len(cons[the(story.epic)].stories) :
          cons[the(story.epic)].stories[i].key = story.key
    THEN cons
    ELSE [cons EXCEPT ![the(story.epic)].stories = Append(@, toGenericIssue(story))]

\* lines 179-181
pushStory(cons, story) ==
    [cons EXCEPT ![the(story.epic)].stories = Append(@, toGenericIssue(story))]

\* the Scr record of lines 187-190
ToScr(scr) ==
    [key |-> toGenericIssue(scr).key,
     created |-> toGenericIssue(scr).created,
     status |-> toGenericIssue(scr).status,
     title |-> toGenericIssue(scr).title,
     resolved |-> toGenericIssue(scr).resolved,
     reporter |-> scr.reporter]

\* variant of pushScr: the new entry is put in front
pushScr_front(cons, scr) ==
    [cons EXCEPT ![the(scr.epic)].scrs = <<ToScr(scr)>> \o @]

\* lines 187-190
pushScr(cons, scr) ==
    [cons EXCEPT ![the(scr.epic)].scrs = Append(@, ToScr(scr))]

\* lines 177-183: one iteration of the story loop
JoinStory ==
    /\ error = "none"
    /\ pc = "stories"
    /\ idx <= Len(stories)
    /\ LET story == stories[idx]
       IN  IF Matched(consolidated, story)
           THEN IF genericThrows(story)
                THEN /\ error' = "TypeError"
                     /\ UNCHANGED <<consolidated, idx>>
                ELSE /\ consolidated' = pushStory(consolidated, story)
                     /\ idx' = idx + 1
                     /\ UNCHANGED error
           ELSE /\ idx' = idx + 1
                /\ UNCHANGED <<consolidated, error>>
    /\ UNCHANGED <<pc, fetch, startAt, tickets, inflight, requests, pages,
                   results, order, flattened, written>>
    /\ UNCHANGED <<postRejected, raw, norm, generic>>

\* lines 185-192: one iteration of the clarification-request loop
JoinScr ==
    /\ error = "none"
    /\ pc = "scrs"
    /\ idx <= Len(scrs)
    /\ LET scr == scrs[idx]
       IN  IF Matched(consolidated, scr)
           THEN IF genericThrows(scr)
                THEN /\ error' = "TypeError"
                     /\ UNCHANGED <<consolidated, idx>>
                ELSE /\ consolidated' = pushScr(consolidated, scr)
                     /\ idx' = idx + 1
                     /\ UNCHANGED error
           ELSE /\ idx' = idx + 1
                /\ UNCHANGED <<consolidated, error>>
    /\ UNCHANGED <<pc, fetch, startAt, tickets, inflight, requests, pages,
                   results, order, flattened, written>>
    /\ UNCHANGED <<postRejected, raw, norm, generic>>

\* the array a for-of loop of main runs over
LoopOver(p) == CASE p = "epics" -> epics [] p = "stories" -> stories
                 [] p = "scrs" -> scrs

AfterLoop(p) == CASE p = "epics" -> "stories" [] p = "stories" -> "scrs"
                  [] p = "scrs" -> "flatten"

\* a for-of loop of lines 168-192 is exhausted and the next statement starts
LoopExit ==
    /\ error = "none"
    /\ pc \in {"epics", "stories", "scrs"}
    /\ idx > Len(LoopOver(pc))
    /\ pc' = AfterLoop(pc)
    /\ idx' = 1
    /\ UNCHANGED <<fetch, startAt, tickets, inflight, requests, pages, results,
                   order, consolidated, flattened, written, error>>
    /\ UNCHANGED <<postRejected, raw, norm, generic>>

\* the concatenation step of Array.prototype.flatMap
RECURSIVE flat(_)
flat(arrs) == IF arrs = <<>> THEN <<>> ELSE Head(arrs) \o flat(Tail(arrs))


\* Object.values(consolidated): the entries in insertion order of their keys
Values(ord, cons) == [i \in 1..Len(ord) |-> cons[ord[i]]]

StoryRows(epic) ==
    [i \in 1..Len(epic.stories) |->
        [epic |-> epic, type |-> "Story", child |-> epic.stories[i]]]

ScrRows(epic) ==
    [i \in 1..Len(epic.scrs) |->
        [epic |-> epic, type |-> "SCR", child |-> epic.scrs[i]]]

EpicRows(epic) == StoryRows(epic) \o ScrRows(epic)

\* variant of Flatten: the rows of an epic stay together, stories then scrs
Flatten_perEpic(ord, cons) ==
    flat([i \in 1..Len(ord) |-> EpicRows(Values(ord, cons)[i])])

\* lines 194-195
Flatten(ord, cons) ==
    flat([i \in 1..Len(ord) |-> StoryRows(Values(ord, cons)[i])])
    \o flat([i \in 1..Len(ord) |-> ScrRows(Values(ord, cons)[i])])

\* lines 194-195: the rows are computed
FlattenRows ==
    /\ error = "none"
    /\ pc = "flatten"
    /\ flattened' = Some(Flatten(order, consolidated))
    /\ pc' = "write"
    /\ UNCHANGED <<fetch, startAt, tickets, inflight, requests, pages, results,
                   order, consolidated, idx, written, error>>
    /\ UNCHANGED <<postRejected, raw, norm, generic>>

\* lines 197-213: writer.writeRecords(flattened) is called
writeRecords ==
    /\ error = "none"
    /\ pc = "write"
    /\ written' = flattened
    /\ pc' = "writing"
    /\ UNCHANGED <<fetch, startAt, tickets, inflight, requests, pages, results,
                   order, consolidated, idx, flattened, error>>
    /\ UNCHANGED <<postRejected, raw, norm, generic>>

\* line 213: the write completes and main returns
WriteCompletes ==
    /\ error = "none"
    /\ pc = "writing"
    /\ pc' = "done"
    /\ UNCHANGED <<fetch, startAt, tickets, inflight, requests, pages, results,
                   order, consolidated, idx, flattened, written, error>>
    /\ UNCHANGED <<postRejected, raw, norm, generic>>

\* line 213: the write rejects (missing output folder, permissions)
WriteFails ==
    /\ error = "none"
    /\ pc = "writing"
    /\ error' = "io"
    /\ UNCHANGED <<pc, fetch, startAt, tickets, inflight, requests, pages,
                   results, order, consolidated, idx, flattened, written>>
    /\ UNCHANGED <<postRejected, raw, norm, generic>>

Init ==
    /\ PipeInit
    /\ raw = CHOOSE t \in ScrPool : t.fields.reporter = Undef
    /\ norm = Pending
    /\ generic = Pending

Next ==
    \/ readJiraPage
    \/ Respond
    \/ RequestFails
    \/ InsertEpic
    \/ JoinStory
    \/ JoinScr
    \/ LoopExit
    \/ FlattenRows
    \/ writeRecords
    \/ WriteCompletes
    \/ WriteFails

Spec == Init /\ [][Next]_vars

(***************************************************************************)
(* Claims about the run of main, checked under Spec.                       *)
(***************************************************************************)
\* the getTickets call the latest request belongs to
lastCall == requests[Len(requests)][1]

\* the requests of call k, in the order they were issued
callRequests(k) == SelectSeq(requests, LAMBDA r : r[1] = k)

nonEmpty(page) == page # Undef /\ the(page) # <<>>

\* the records of a sequence of pages, in page order
Records(ps) == flat([i \in 1..Len(ps) |-> IF ps[i] = Undef THEN <<>> ELSE the(ps[i])])

\* C3: a call requests the offsets 0, 250, 500, ... whatever the pages hold,
\* requests nothing after the first empty or absent page, and returns one
\* normalised ticket per record of the pages received, in request order.
C3_Pagination ==
    /\ \A k \in 1..3 : \A j \in 1..Len(callRequests(k)) :
          callRequests(k)[j][2] = (j - 1) * 250
    /\ (requests # <<>> /\ ~postRejected) =>
          /\ Len(callRequests(lastCall)) = Len(pages) + inflight
          /\ \A j \in 1..(Len(pages) - 1) : nonEmpty(pages[j])
          /\ results[lastCall] # Undef =>
                /\ pages # <<>>
                /\ ~nonEmpty(pages[Len(pages)])
                /\ Len(the(results[lastCall])) = Len(Records(pages))
                /\ \A i \in 1..Len(Records(pages)) :
                      the(results[lastCall])[i] = toTicket(Records(pages)[i])

C3_Witness ==
    /\ requests = <<<<1, 0>>, <<1, 250>>, <<1, 500>>>>
    /\ Len(pages) = 3
    /\ nonEmpty(pages[1]) /\ Len(the(pages[1])) = 1
    /\ nonEmpty(pages[2]) /\ Len(the(pages[2])) = 2
    /\ results[1] # Undef
    /\ Len(scrs) = 3

\* C8: a call leaves its page loop exactly when an empty or absent page has
\* arrived, right after that page; while every page is non-empty it goes on
\* requesting, however many pages it has received.
C8_Termination ==
    (requests # <<>> /\ ~postRejected) =>
        /\ (results[lastCall] # Undef \/ pc = "map")
              <=> (pages # <<>> /\ ~nonEmpty(pages[Len(pages)]))
        /\ (\A j \in 1..Len(pages) : nonEmpty(pages[j]))
              => (pc \in {"fetch", "await"} /\ fetch = lastCall)
        /\ \A j \in 1..Len(pages) : ~nonEmpty(pages[j]) => j = Len(pages)

C8_Witness ==
    /\ Len(pages) = 5
    /\ \A j \in 1..4 : nonEmpty(pages[j])
    /\ pages[5] = Undef
    /\ results[lastCall] # Undef
    /\ Len(callRequests(lastCall)) = 5

\* C9: at most one request is in flight, and only while the program awaits
\* it; the calls run in the order scrs, stories, epics, each after the
\* previous one has returned; the join starts after all three have returned
\* and the write after the rows are computed.
C9_Sequential ==
    /\ inflight \in {0, 1}
    /\ inflight = 1 <=> (pc = "await" /\ error = "none")
    /\ \A i \in 1..Len(requests) : \A j \in i..Len(requests) :
          requests[i][1] <= requests[j][1]
    /\ \A i \in 1..Len(requests) : \A k \in 1..(requests[i][1] - 1) :
          results[k] # Undef
    /\ (pc \in {"epics", "stories", "scrs", "flatten", "write", "writing", "done"}
        \/ order # <<>>)
          => (inflight = 0 /\ \A k \in 1..3 : results[k] # Undef)
    /\ flattened # Undef => pc \in {"write", "writing", "done"}
    /\ written # Undef => (pc \in {"writing", "done"} /\ written = flattened)

C9_Witness ==
    /\ pc = "await"
    /\ fetch = 3
    /\ inflight = 1
    /\ Len(callRequests(1)) = 2
    /\ Len(callRequests(2)) = 2
    /\ Len(callRequests(3)) = 2

\* C6: once a page request has failed the run is over: no request is issued
\* afterwards, no call returns, and the write never starts; the write starts
\* only when all three calls have returned.
C6_FailFast ==
    /\ [](postRejected =>
            (/\ error = "http"
             /\ written = Undef
             /\ flattened = Undef
             /\ results[fetch] = Undef))
    /\ [][postRejected => (requests' = requests /\ results' = results)]_vars
    /\ [](written # Undef =>
            (~postRejected /\ \A k \in 1..3 : results[k] # Undef))

C6_Witness ==
    /\ postRejected
    /\ fetch = 2
    /\ Len(pages) = 1
    /\ Len(requests) = 4
    /\ written = Undef

\* the tickets of a fetched sequence whose epic is K, in fetch order
ChildrenOf(fetched, K) == SelectSeq(fetched, LAMBDA t : t.epic = Some(K))

\* C4: after the join every epic lists exactly the fetched stories, and the
\* fetched clarification requests with their reporter, whose epic is its
\* key, in fetch order and without deduplication; a child with no epic or
\* with an unknown one is left out and stops nothing.
C4_Join ==
    /\ (pc \in {"flatten", "write", "writing", "done"}) =>
          \A K \in DOMAIN consolidated :
             LET e == consolidated[K]
                 ss == ChildrenOf(stories, K)
                 cs == ChildrenOf(scrs, K)
             IN  /\ Len(e.stories) = Len(ss)
                 /\ \A i \in 1..Len(ss) :
                       /\ e.stories[i].key = ss[i].key
                       /\ e.stories[i].title = ss[i].summary
                       /\ e.stories[i].status = ss[i].status
                 /\ Len(e.scrs) = Len(cs)
                 /\ \A i \in 1..Len(cs) :
                       /\ e.scrs[i].key = cs[i].key
                       /\ e.scrs[i].title = cs[i].summary
                       /\ e.scrs[i].reporter = cs[i].reporter
    /\ (error = "TypeError" /\ pc = "stories") =>
          stories[idx].epic \in {Some(K) : K \in DOMAIN consolidated}
    /\ (error = "TypeError" /\ pc = "scrs") =>
          scrs[idx].epic \in {Some(K) : K \in DOMAIN consolidated}

C4_Witness ==
    /\ pc = "done"
    /\ \E K \in DOMAIN consolidated :
          /\ Len(consolidated[K].stories) = 2
          /\ consolidated[K].stories[1].key = consolidated[K].stories[2].key
    /\ \E i \in 1..Len(stories) :
          /\ stories[i].epic # Undef
          /\ the(stories[i].epic) \notin DOMAIN consolidated
          /\ stories[i].created = Undef

RECURSIVE StoriesBefore(_)
StoriesBefore(e) ==
    IF e = 1 THEN 0
    ELSE StoriesBefore(e - 1) + Len(consolidated[order[e - 1]].stories)

RECURSIVE ScrsBefore(_)
ScrsBefore(e) ==
    IF e = 1 THEN 0
    ELSE ScrsBefore(e - 1) + Len(consolidated[order[e - 1]].scrs)

\* position of the first epic ticket with key K
FirstInsertion(K) ==
    CHOOSE i \in 1..Len(epics) :
        epics[i].key = K /\ \A j \in 1..(i - 1) : epics[j].key # K

\* C5: the rows are the "Story" rows of all epics followed by the "SCR" rows
\* of all epics; in each group the epics come in the order their keys were
\* first inserted and the children of an epic in append order, so there are
\* as many rows as attached children.
C5_Flatten ==
    flattened # Undef =>
        LET rows == the(flattened)
            n == Len(order)
        IN  /\ Len(rows) = StoriesBefore(n + 1) + ScrsBefore(n + 1)
            /\ \A e \in 1..n :
                  /\ \A c \in 1..Len(consolidated[order[e]].stories) :
                        rows[StoriesBefore(e) + c] =
                           [epic |-> consolidated[order[e]], type |-> "Story",
                            child |-> consolidated[order[e]].stories[c]]
                  /\ \A c \in 1..Len(consolidated[order[e]].scrs) :
                        rows[StoriesBefore(n + 1) + ScrsBefore(e) + c] =
                           [epic |-> consolidated[order[e]], type |-> "SCR",
                            child |-> consolidated[order[e]].scrs[c]]
            /\ {order[e] : e \in 1..n} = {epics[i].key : i \in 1..Len(epics)}
            /\ \A a \in 1..n : \A b \in (a + 1)..n :
                  FirstInsertion(order[a]) < FirstInsertion(order[b])

C5_Witness ==
    /\ flattened # Undef
    /\ Len(order) = 2
    /\ Len(the(flattened)) = 2
    /\ the(flattened)[1].type = "Story"
    /\ the(flattened)[1].epic.key = order[2]
    /\ the(flattened)[2].type = "SCR"
    /\ the(flattened)[2].epic.key = order[1]

IsPrefix(a, b) == Len(a) <= Len(b) /\ \A i \in 1..Len(a) : a[i] = b[i]

ownFields(e) == <<e.key, e.title, e.status, e.created, e.resolved, e.svp>>

\* a step of a join loop adds and removes no key and changes no own field
joinKeepsEntries ==
    pc \in {"stories", "scrs"} =>
        /\ DOMAIN consolidated' = DOMAIN consolidated
        /\ \A K \in DOMAIN consolidated :
              ownFields(consolidated'[K]) = ownFields(consolidated[K])

\* a step removes no key and only appends to the children of an entry
childrenGrow ==
    \A K \in DOMAIN consolidated :
        /\ K \in DOMAIN consolidated'
        /\ IsPrefix(consolidated[K].stories, consolidated'[K].stories)
        /\ IsPrefix(consolidated[K].scrs, consolidated'[K].scrs)

\* C10: when the story loop starts the mapping holds exactly the keys of
\* the fetched epics, each with no children; the join loops add and remove
\* no key and change no entry's own fields; and at every step every key
\* stays and its stories and scrs only grow at the end.
C10_Lifecycle ==
    /\ []((pc = "stories" /\ idx = 1) =>
            (/\ DOMAIN consolidated = {epics[i].key : i \in 1..Len(epics)}
             /\ \A K \in DOMAIN consolidated :
                   consolidated[K].stories = <<>> /\ consolidated[K].scrs = <<>>))
    /\ [][joinKeepsEntries]_vars
    /\ [][childrenGrow]_vars

C10_Witness ==
    /\ pc = "scrs"
    /\ \E K \in DOMAIN consolidated :
          /\ Len(consolidated[K].scrs) = 2
          /\ consolidated[K].scrs[1] # consolidated[K].scrs[2]

(***************************************************************************)
(* Claims about the normaliser, checked under SpecNorm.                    *)
(***************************************************************************)
Range(f) == {f[i] : i \in DOMAIN f}

rawStatus == the(raw.fields.status).name
rawRejectLabel ==
    raw.fields.labels # Undef /\ "ExecReject" \in Range(the(raw.fields.labels))
rawResolvedDone == raw.fields.resolution = Named("Done")
normTicket == the(norm.value)

\* C1: the normalised status is "Rejected" for a raw status "Done" with the
\* label ExecReject or a resolution other than "Done" (an absent one included),
\* "Done" for a raw status "Done" resolved "Done" without the label, and the
\* raw status name verbatim otherwise.
C1_StatusDerivation ==
    norm.state = "ok" =>
        /\ (rawStatus = "Done" /\ (rawRejectLabel \/ ~rawResolvedDone))
              => normTicket.status = "Rejected"
        /\ (rawStatus = "Done" /\ rawResolvedDone /\ ~rawRejectLabel)
              => normTicket.status = "Done"
        /\ rawStatus # "Done" => normTicket.status = rawStatus

C1_Witness ==
    /\ norm.state = "ok"
    /\ rawStatus = "Done"
    /\ rawResolvedDone
    /\ rawRejectLabel
    /\ normTicket.status = "Rejected"

\* positions of the issue links that qualify as an epic reference
Qualifying ==
    IF raw.fields.issuelinks = Undef THEN {}
    ELSE LET links == the(raw.fields.issuelinks)
         IN  {i \in 1..Len(links) :
                 /\ links[i].type.name = "Relates"
                 /\ \E o \in links[i].outwardIssue : \E k \in o.key :
                       Len(k) >= 6 /\ [j \in 1..6 |-> k[j]] = CENPRO}

\* C2: the normalised epic is the epic-link field when present, otherwise the
\* linked key of the first issue link of type "Relates" whose key starts with
\* the project prefix, and undefined when no link qualifies.
C2_EpicResolution ==
    norm.state = "ok" =>
        IF raw.fields.customfield_10002 # Undef
        THEN normTicket.epic = raw.fields.customfield_10002
        ELSE IF Qualifying = {}
        THEN normTicket.epic = Undef
        ELSE LET first == CHOOSE i \in Qualifying : \A j \in Qualifying : i <= j
             IN  normTicket.epic = the(the(raw.fields.issuelinks)[first].outwardIssue).key

C2_Witness ==
    /\ norm.state = "ok"
    /\ raw.fields.customfield_10002 = Undef
    /\ Qualifying = {1, 2}
    /\ the(raw.fields.issuelinks)[1] # the(raw.fields.issuelinks)[2]
    /\ normTicket.epic = the(the(raw.fields.issuelinks)[1].outwardIssue).key

\* fields of the raw ticket whose absence the map callback and toGenericIssue
\* survive, with the field of the result that is then undefined
absenceTolerated ==
    /\ norm.state = "ok" =>
          /\ raw.fields.customfield_28100 = Undef => normTicket.svp = Undef
          /\ raw.fields.reporter = Undef => normTicket.reporter = Undef
          /\ raw.fields.resolutiondate = Undef => normTicket.resolved = Undef
          /\ raw.fields.created = Undef => normTicket.created = Undef
          /\ (raw.fields.customfield_10002 = Undef /\ Qualifying = {})
                => normTicket.epic = Undef
    /\ generic.state = "ok" =>
          (raw.fields.resolutiondate = Undef => the(generic.value).resolved = Undef)

\* C7 as stated: whichever optional structure is absent, neither the map
\* callback nor toGenericIssue fails, and the matching field is undefined.
C7_NeverFails ==
    /\ norm.state # "TypeError"
    /\ generic.state # "TypeError"
    /\ absenceTolerated

\* C7 amended: the map callback fails exactly when the status is absent and
\* toGenericIssue exactly when the created timestamp is absent; the absence of
\* any other optional structure leaves the matching field undefined.
C7_SafeNavigation ==
    /\ norm # Pending => (norm.state = "TypeError" <=> raw.fields.status = Undef)
    /\ generic # Pending =>
          (generic.state = "TypeError" <=> raw.fields.created = Undef)
    /\ absenceTolerated

C7_Witness ==
    /\ generic.state = "ok"
    /\ raw.fields.labels = Undef
    /\ raw.fields.customfield_10002 = Undef
    /\ raw.fields.customfield_28100 = Undef
    /\ raw.fields.reporter = Undef
    /\ raw.fields.resolution = Undef
    /\ raw.fields.issuelinks = Undef
    /\ raw.fields.resolutiondate = Undef
    /\ normTicket.epic = Undef
    /\ the(generic.value).resolved = Undef

====
